---- MODULE Spec2Model ----
(***************************************************************************)
(* Acquisition layer of modAL (src/modAL/acquisition.py): the acquisition  *)
(* formulas PI, EI, UCB, the adapters optimizer_PI/EI/UCB and the query    *)
(* strategies max_PI/EI/UCB.                                               *)
(*                                                                         *)
(* Numbers.  mean, std, y_max, tradeoff and beta are integers.  A float    *)
(* result is a record [nan, v]: NaN, or the finite value v.  PI and EI     *)
(* results are in millionths (fixed point, 6 decimals); UCB results are    *)
(* plain integers.  The quotient z = margin/std is kept in fifths, which   *)
(* is exact for the std values used here (0, 1, 5 and their negatives).    *)
(*                                                                         *)
(* Arrays.  A numpy array is [shape, data] with data in row-major order;   *)
(* elementwise operations broadcast as numpy does.                         *)
(***************************************************************************)
EXTENDS Integers, Sequences, FiniteSets, TLC

\* Largest candidate batch.
MaxN == 2

MeanVals == {0, 2}
StdVals == {0, 1, 5}
YMaxVals == {0, 1}
Tradeoffs == {0, 1}
Betas == {0, 1, 2}

\* Inputs of the formulas when they are called directly.
FormulaMeans == -2 .. 2
FormulaStds == {-5, -1, 0, 1, 5}
FormulaBetas == {-1, 0, 1, 2}

VARIABLES optimizer, X, args, pc, call, outcome

vars == <<optimizer, X, args, pc, call, outcome>>

----------------------------------------------------------------------------
\* Floating point values

F(v) == [nan |-> FALSE, v |-> v]

NaN == [nan |-> TRUE, v |-> 0]

FMul(k, x) == IF x.nan THEN NaN ELSE F(k * x.v)

FAdd(x, y) == IF x.nan \/ y.nan THEN NaN ELSE F(x.v + y.v)

\* numpy's true division of a finite m by a finite s, the quotient in fifths:
\* a zero divisor gives +inf, -inf or NaN (with a warning), never an error.
Div(m, s) ==
    IF s = 0
    THEN (IF m > 0 THEN [k |-> "pinf", v |-> 0]
          ELSE IF m < 0 THEN [k |-> "ninf", v |-> 0]
          ELSE [k |-> "nan", v |-> 0])
    ELSE IF s > 0
    THEN [k |-> "fin", v |-> IF m >= 0 THEN (5 * m) \div s ELSE -((5 * (-m)) \div s)]
    ELSE [k |-> "fin", v |-> IF m >= 0 THEN -((5 * m) \div (-s)) ELSE (5 * (-m)) \div (-s)]

\* Standard normal CDF and density at z = k/5, k = -20 .. 20, in millionths.
PhiTable ==
    <<32, 72, 159, 337, 687, 1350, 2555, 4661, 8198, 13903, 22750, 35930,
      54799, 80757, 115070, 158655, 211855, 274253, 344578, 420740, 500000,
      579260, 655422, 725747, 788145, 841345, 884930, 919243, 945201, 964070,
      977250, 986097, 991802, 995339, 997445, 998650, 999313, 999663, 999841,
      999928, 999968>>

DensityTable ==
    <<134, 292, 612, 1232, 2384, 4432, 7915, 13583, 22395, 35475, 53991,
      78950, 110921, 149727, 194186, 241971, 289692, 333225, 368270, 391043,
      398942, 391043, 368270, 333225, 289692, 241971, 194186, 149727, 110921,
      78950, 53991, 35475, 22395, 13583, 7915, 4432, 2384, 1232, 612, 292,
      134>>

\* scipy.special.ndtr
ndtr(z) ==
    CASE z.k = "fin" -> F(PhiTable[z.v + 21])
      [] z.k = "pinf" -> F(1000000)
      [] z.k = "ninf" -> F(0)
      [] OTHER -> NaN

\* scipy.stats.norm.pdf
pdf(z) ==
    CASE z.k = "fin" -> F(DensityTable[z.v + 21])
      [] z.k = "nan" -> NaN
      [] OTHER -> F(0)

----------------------------------------------------------------------------
\* Acquisition formulas, on one element

PI(mean, std, max_val, tradeoff) == ndtr(Div(mean - max_val - tradeoff, std))

EI(mean, std, max_val, tradeoff) ==
    LET z == Div(mean - max_val - tradeoff, std)
    IN  FAdd(FMul(mean - max_val - tradeoff, ndtr(z)), FMul(std, pdf(z)))

\* UCB with mean and std exchanged.
UCB_swapped(mean, std, beta) == std + beta * mean

\* UCB with the uncertainty term subtracted.
UCB_minus(mean, std, beta) == mean - beta * std

UCB(mean, std, beta) == mean + beta * std

----------------------------------------------------------------------------
\* numpy arrays

Arr(shape, data) == [shape |-> shape, data |-> data]

NoArr == Arr(<<>>, <<>>)

\* A 1-d array of length n broadcasts as a row (1, n).
Rows(a) == IF Len(a.shape) = 1 THEN 1 ELSE a.shape[1]

Cols(a) == IF Len(a.shape) = 1 THEN a.shape[1] ELSE a.shape[2]

At(a, i, j) ==
    a.data[((IF Rows(a) = 1 THEN 1 ELSE i) - 1) * Cols(a)
           + (IF Cols(a) = 1 THEN 1 ELSE j)]

Max2(a, b) == IF a >= b THEN a ELSE b

\* a.reshape(-1, 1): a new array object, the original keeps its shape.
Reshape(a) == Arr(<<Len(a.data), 1>>, a.data)

\* The pairs (element of a, element of b) an elementwise operation on a and b
\* combines; one of the two is 2-d, so is the result.
Broadcast(a, b) ==
    Arr(<<Max2(Rows(a), Rows(b)), Max2(Cols(a), Cols(b))>>,
        [k \in 1 .. Max2(Rows(a), Rows(b)) * Max2(Cols(a), Cols(b)) |->
            <<At(a, ((k - 1) \div Max2(Cols(a), Cols(b))) + 1,
                    ((k - 1) % Max2(Cols(a), Cols(b))) + 1),
              At(b, ((k - 1) \div Max2(Cols(a), Cols(b))) + 1,
                    ((k - 1) % Max2(Cols(a), Cols(b))) + 1)>>])

----------------------------------------------------------------------------
\* Results of a call: returned (ok) or raised, with the collaborators'
\* operations it invoked, in order.

Returned(value, calls) == [ok |-> TRUE, error |-> "none", value |-> value, calls |-> calls]

Raised(error, calls) == [ok |-> FALSE, error |-> error, value |-> NoArr, calls |-> calls]

\* optimizer.predict(X, return_std=True): an unfit model raises.
predict(opt, Xb) ==
    IF opt.fitted
    THEN Returned([mean |-> opt.mean, std |-> opt.std], <<"predict">>)
    ELSE Raised("NotFittedError", <<"predict">>)

----------------------------------------------------------------------------
\* Surrogate adapters

optimizer_PI(opt, Xb, tradeoff) ==
    LET p == predict(opt, Xb)
    IN  IF ~p.ok THEN p
        ELSE LET ms == Broadcast(p.value.mean, Reshape(p.value.std))
             IN  Returned(Arr(ms.shape,
                              [k \in 1 .. Len(ms.data) |->
                                  PI(ms.data[k][1], ms.data[k][2], opt.y_max, tradeoff)]),
                          p.calls)

\* optimizer_EI predicting a second time after a failed prediction.
optimizer_EI_retry(opt, Xb, tradeoff) ==
    LET p == predict(opt, Xb)
    IN  IF ~p.ok THEN Raised(predict(opt, Xb).error, p.calls \o predict(opt, Xb).calls)
        ELSE LET ms == Broadcast(p.value.mean, Reshape(p.value.std))
             IN  Returned(Arr(ms.shape,
                              [k \in 1 .. Len(ms.data) |->
                                  EI(ms.data[k][1], ms.data[k][2], opt.y_max, tradeoff)]),
                          p.calls)

optimizer_EI(opt, Xb, tradeoff) ==
    LET p == predict(opt, Xb)
    IN  IF ~p.ok THEN p
        ELSE LET ms == Broadcast(p.value.mean, Reshape(p.value.std))
             IN  Returned(Arr(ms.shape,
                              [k \in 1 .. Len(ms.data) |->
                                  EI(ms.data[k][1], ms.data[k][2], opt.y_max, tradeoff)]),
                          p.calls)

optimizer_UCB(opt, Xb, beta) ==
    LET p == predict(opt, Xb)
    IN  IF ~p.ok THEN p
        ELSE LET ms == Broadcast(p.value.mean, Reshape(p.value.std))
             IN  Returned(Arr(ms.shape,
                              [k \in 1 .. Len(ms.data) |->
                                  F(UCB(ms.data[k][1], ms.data[k][2], beta))]),
                          p.calls)

----------------------------------------------------------------------------
\* Top-k selector (modAL.utils.selection.multi_argmax)

\* Whether score a ranks above score b.  The selector's contract says nothing
\* of NaN: nan_first tells whether it ranks NaN above or below every number.
Higher(a, b, nan_first) ==
    IF a.nan /\ b.nan THEN FALSE
    ELSE IF a.nan THEN nan_first
    ELSE IF b.nan THEN ~nan_first
    ELSE a.v > b.v

\* Entry (i, c) of values, i along the first axis.
Entry(values, i, c) ==
    values.data[(i - 1) * (IF Len(values.shape) = 1 THEN 1 ELSE values.shape[2]) + c]

\* Candidate j comes before candidate i in column c: a higher score, or the
\* same score and a lower index.
Before(values, c, j, i, nan_first) ==
    \/ Higher(Entry(values, j, c), Entry(values, i, c), nan_first)
    \/ /\ ~Higher(Entry(values, i, c), Entry(values, j, c), nan_first)
       /\ j < i

\* The candidate (1-based) at place k of column c's descending order.
Placed(values, c, k, nan_first) ==
    CHOOSE i \in 1 .. values.shape[1] :
        Cardinality({j \in 1 .. values.shape[1] : Before(values, c, j, i, nan_first)}) = k - 1

\* The indices (0-based) of the n_instances highest scores along the first
\* axis, highest first; more instances than entries is an error.
multi_argmax(values, n_instances, nan_first) ==
    LET w == IF Len(values.shape) = 1 THEN 1 ELSE values.shape[2]
    IN  IF n_instances > values.shape[1]
        THEN Raised("SelectorError", <<"multi_argmax">>)
        ELSE Returned(
                 Arr(IF Len(values.shape) = 1 THEN <<n_instances>> ELSE <<n_instances, w>>,
                     [k \in 1 .. n_instances * w |->
                         Placed(values, ((k - 1) % w) + 1, ((k - 1) \div w) + 1, nan_first) - 1]),
                 <<"multi_argmax">>)

\* X[:len(query_idx)]: the first rows of X instead of the rows at the indices.
Take_head(Xb, query_idx) ==
    Arr(query_idx.shape,
        [k \in 1 .. Len(query_idx.data) |-> Xb[((k - 1) % Len(Xb)) + 1]])

\* X[query_idx]: one row of X per index, in the shape of the index array.
Take(Xb, query_idx) ==
    Arr(query_idx.shape, [k \in 1 .. Len(query_idx.data) |-> Xb[query_idx.data[k] + 1]])

----------------------------------------------------------------------------
\* Query strategies

\* max_PI asking the selector for at most as many instances as there are rows.
max_PI_clamped(opt, Xb, tradeoff, n_instances, nan_first) ==
    LET pi == optimizer_PI(opt, Xb, tradeoff)
        k == IF n_instances > Len(Xb) THEN Len(Xb) ELSE n_instances
    IN  IF ~pi.ok THEN pi
        ELSE LET query_idx == multi_argmax(pi.value, k, nan_first)
             IN  IF ~query_idx.ok THEN Raised(query_idx.error, pi.calls \o query_idx.calls)
                 ELSE Returned([query_idx |-> query_idx.value,
                                rows |-> Take(Xb, query_idx.value)],
                               pi.calls \o query_idx.calls)

max_PI(opt, Xb, tradeoff, n_instances, nan_first) ==
    LET pi == optimizer_PI(opt, Xb, tradeoff)
    IN  IF ~pi.ok THEN pi
        ELSE LET query_idx == multi_argmax(pi.value, n_instances, nan_first)
             IN  IF ~query_idx.ok THEN Raised(query_idx.error, pi.calls \o query_idx.calls)
                 ELSE Returned([query_idx |-> query_idx.value,
                                rows |-> Take(Xb, query_idx.value)],
                               pi.calls \o query_idx.calls)

max_EI(opt, Xb, tradeoff, n_instances, nan_first) ==
    LET ei == optimizer_EI(opt, Xb, tradeoff)
    IN  IF ~ei.ok THEN ei
        ELSE LET query_idx == multi_argmax(ei.value, n_instances, nan_first)
             IN  IF ~query_idx.ok THEN Raised(query_idx.error, ei.calls \o query_idx.calls)
                 ELSE Returned([query_idx |-> query_idx.value,
                                rows |-> Take(Xb, query_idx.value)],
                               ei.calls \o query_idx.calls)

max_UCB(opt, Xb, beta, n_instances, nan_first) ==
    LET ucb == optimizer_UCB(opt, Xb, beta)
    IN  IF ~ucb.ok THEN ucb
        ELSE LET query_idx == multi_argmax(ucb.value, n_instances, nan_first)
             IN  IF ~query_idx.ok THEN Raised(query_idx.error, ucb.calls \o query_idx.calls)
                 ELSE Returned([query_idx |-> query_idx.value,
                                rows |-> Take(Xb, query_idx.value)],
                               ucb.calls \o query_idx.calls)

----------------------------------------------------------------------------
\* State

\* Candidate batches of n distinct rows (a row is its feature value).
Batches(n) == {[i \in 1 .. n |-> 10 * i], [i \in 1 .. n |-> 10 * (n + 1 - i)]}

\* A BayesianOptimizer with its predictions for the batch: the mean is 1-d
\* (n,) or a column (n, 1), as the regressor was fitted on 1-d or 2-d targets;
\* the standard deviation is 1-d.
Optimizers(n) ==
    {[fitted |-> TRUE, y_max |-> y, mean |-> Arr(sh, m), std |-> Arr(<<n>>, s)] :
        y \in YMaxVals, sh \in {<<n>>, <<n, 1>>},
        m \in [1 .. n -> MeanVals], s \in [1 .. n -> StdVals]}
    \cup
    {[fitted |-> FALSE, y_max |-> y, mean |-> NoArr, std |-> NoArr] : y \in YMaxVals}

NoCall == [op |-> "none", param |-> 0, n_instances |-> 0, nan_first |-> FALSE]

NoOutcome == [ok |-> FALSE, error |-> "none", value |-> NoArr, calls |-> <<>>]

NoArgs == [mean |-> 0, std |-> 0, max_val |-> 0, tradeoff |-> 0, beta |-> 0]

Init ==
    /\ \E n \in 1 .. MaxN : X \in Batches(n) /\ optimizer \in Optimizers(n)
    /\ args = NoArgs
    /\ pc = "idle"
    /\ call = NoCall
    /\ outcome = NoOutcome

\* The selector's treatment of NaN matters only when a score is NaN.
NanChoices(utility) ==
    IF utility.ok /\ \E k \in 1 .. Len(utility.value.data) : utility.value.data[k].nan
    THEN BOOLEAN ELSE {FALSE}

\* optimizer_PI reshaping the predicted std array in place (std.shape = (-1, 1)).
Call_optimizer_PI_inplace ==
    /\ pc = "idle"
    /\ \E t \in Tradeoffs :
        /\ call' = [NoCall EXCEPT !.op = "optimizer_PI", !.param = t]
        /\ outcome' = optimizer_PI(optimizer, X, t)
    /\ optimizer' = IF optimizer.fitted
                    THEN [optimizer EXCEPT !.std = Reshape(optimizer.std)]
                    ELSE optimizer
    /\ pc' = "done"
    /\ UNCHANGED <<X, args>>

Call_optimizer_PI ==
    /\ pc = "idle"
    /\ \E t \in Tradeoffs :
        /\ call' = [NoCall EXCEPT !.op = "optimizer_PI", !.param = t]
        /\ outcome' = optimizer_PI(optimizer, X, t)
    /\ pc' = "done"
    /\ UNCHANGED <<optimizer, X, args>>

Call_optimizer_EI ==
    /\ pc = "idle"
    /\ \E t \in Tradeoffs :
        /\ call' = [NoCall EXCEPT !.op = "optimizer_EI", !.param = t]
        /\ outcome' = optimizer_EI(optimizer, X, t)
    /\ pc' = "done"
    /\ UNCHANGED <<optimizer, X, args>>

Call_optimizer_UCB ==
    /\ pc = "idle"
    /\ \E b \in Betas :
        /\ call' = [NoCall EXCEPT !.op = "optimizer_UCB", !.param = b]
        /\ outcome' = optimizer_UCB(optimizer, X, b)
    /\ pc' = "done"
    /\ UNCHANGED <<optimizer, X, args>>

Call_max_PI ==
    /\ pc = "idle"
    /\ \E t \in Tradeoffs, k \in 1 .. MaxN + 1 :
        \E nf \in NanChoices(optimizer_PI(optimizer, X, t)) :
            /\ call' = [op |-> "max_PI", param |-> t, n_instances |-> k, nan_first |-> nf]
            /\ outcome' = max_PI(optimizer, X, t, k, nf)
    /\ pc' = "done"
    /\ UNCHANGED <<optimizer, X, args>>

Call_max_EI ==
    /\ pc = "idle"
    /\ \E t \in Tradeoffs, k \in 1 .. MaxN + 1 :
        \E nf \in NanChoices(optimizer_EI(optimizer, X, t)) :
            /\ call' = [op |-> "max_EI", param |-> t, n_instances |-> k, nan_first |-> nf]
            /\ outcome' = max_EI(optimizer, X, t, k, nf)
    /\ pc' = "done"
    /\ UNCHANGED <<optimizer, X, args>>

Call_max_UCB ==
    /\ pc = "idle"
    /\ \E b \in Betas, k \in 1 .. MaxN + 1 :
        \E nf \in NanChoices(optimizer_UCB(optimizer, X, b)) :
            /\ call' = [op |-> "max_UCB", param |-> b, n_instances |-> k, nan_first |-> nf]
            /\ outcome' = max_UCB(optimizer, X, b, k, nf)
    /\ pc' = "done"
    /\ UNCHANGED <<optimizer, X, args>>

\* The caller takes the result; the next decision round may start.
Return ==
    /\ pc = "done"
    /\ pc' = "idle"
    /\ call' = NoCall
    /\ outcome' = NoOutcome
    /\ UNCHANGED <<optimizer, X, args>>

Next ==
    \/ Call_optimizer_PI
    \/ Call_optimizer_EI
    \/ Call_optimizer_UCB
    \/ Call_max_PI
    \/ Call_max_EI
    \/ Call_max_UCB
    \/ Return

Spec == Init /\ [][Next]_vars

----------------------------------------------------------------------------
\* The formulas called directly, on scalars

FormulaArgs ==
    [mean : FormulaMeans, std : FormulaStds, max_val : YMaxVals,
     tradeoff : Tradeoffs, beta : FormulaBetas]

InitFormulas ==
    /\ X = <<10>>
    /\ optimizer \in {o \in Optimizers(1) : ~o.fitted /\ o.y_max = 0}
    /\ args \in FormulaArgs
    /\ pc = "idle"
    /\ call = NoCall
    /\ outcome = NoOutcome

Call_PI ==
    /\ pc = "idle"
    /\ call' = [NoCall EXCEPT !.op = "PI", !.param = args.tradeoff]
    /\ outcome' = Returned(PI(args.mean, args.std, args.max_val, args.tradeoff), <<>>)
    /\ pc' = "done"
    /\ UNCHANGED <<optimizer, X, args>>

Call_EI ==
    /\ pc = "idle"
    /\ call' = [NoCall EXCEPT !.op = "EI", !.param = args.tradeoff]
    /\ outcome' = Returned(EI(args.mean, args.std, args.max_val, args.tradeoff), <<>>)
    /\ pc' = "done"
    /\ UNCHANGED <<optimizer, X, args>>

Call_UCB ==
    /\ pc = "idle"
    /\ call' = [NoCall EXCEPT !.op = "UCB", !.param = args.beta]
    /\ outcome' = Returned(UCB(args.mean, args.std, args.beta), <<>>)
    /\ pc' = "done"
    /\ UNCHANGED <<optimizer, X, args>>

NextFormulas ==
    \/ Call_PI
    \/ Call_EI
    \/ Call_UCB
    \/ Return

SpecFormulas == InitFormulas /\ [][NextFormulas]_vars

----------------------------------------------------------------------------
\* Vocabulary of the properties

Adapters == {"optimizer_PI", "optimizer_EI", "optimizer_UCB"}

Strategies == {"max_PI", "max_EI", "max_UCB"}

\* Number of candidates in the batch.
N == Len(X)

\* A call of op has ended and the caller has not yet taken the result.
Ended(ops) == pc = "done" /\ call.op \in ops

\* Candidate i's own score: the formula on its mean and its uncertainty.
CandScore(i) ==
    CASE call.op \in {"optimizer_PI", "max_PI"} ->
             PI(optimizer.mean.data[i], optimizer.std.data[i], optimizer.y_max, call.param)
      [] call.op \in {"optimizer_EI", "max_EI"} ->
             EI(optimizer.mean.data[i], optimizer.std.data[i], optimizer.y_max, call.param)
      [] OTHER ->
             F(UCB(optimizer.mean.data[i], optimizer.std.data[i], call.param))

\* a >= b on floats: false when either is NaN.
AtLeast(a, b) == ~a.nan /\ ~b.nan /\ a.v >= b.v

\* The score array the strategy's adapter produced in the call that ended.
Utility ==
    CASE call.op = "max_PI" -> optimizer_PI(optimizer, X, call.param)
      [] call.op = "max_EI" -> optimizer_EI(optimizer, X, call.param)
      [] OTHER -> optimizer_UCB(optimizer, X, call.param)

ZeroStd == \E i \in 1 .. Len(optimizer.std.data) : optimizer.std.data[i] = 0

----------------------------------------------------------------------------
\* C1: for a fitted surrogate and 1 <= n_instances <= n, a query strategy
\* returns exactly n_instances indices, each in [0, n), no index twice.
C1_SelectionValid ==
    (Ended(Strategies) /\ optimizer.fitted /\ call.n_instances <= N) =>
        /\ outcome.ok
        /\ Len(outcome.value.query_idx.data) = call.n_instances
        /\ \A k \in 1 .. Len(outcome.value.query_idx.data) :
               outcome.value.query_idx.data[k] \in 0 .. N - 1
        /\ \A k, l \in 1 .. Len(outcome.value.query_idx.data) :
               k # l => outcome.value.query_idx.data[k] # outcome.value.query_idx.data[l]

\* C2: when the predicted uncertainty contains an exact 0, the PI and EI
\* adapters and strategies end in an error and return nothing.
C2_ZeroStdRaises ==
    (Ended({"optimizer_PI", "optimizer_EI", "max_PI", "max_EI"})
         /\ optimizer.fitted /\ ZeroStd) =>
        ~outcome.ok

C4_OneScorePerCandidate ==
    (Ended(Adapters) /\ optimizer.fitted) =>
        /\ outcome.ok
        /\ Len(outcome.value.data) = N
        /\ \A i \in 1 .. N : outcome.value.data[i] = CandScore(i)

\* C5: for 1 <= n_instances <= n the returned indices name the n_instances
\* candidates with the highest scores, highest first: consecutive selected
\* scores do not increase and no unselected candidate scores strictly higher
\* than a selected one.  max_UCB on mean [0, 0], std [1, 5], beta 2,
\* n_instances 1 returns index 1.
C5_TopScoresDescending ==
    (Ended(Strategies) /\ optimizer.fitted /\ call.n_instances <= N) =>
        /\ outcome.ok
        /\ Len(outcome.value.query_idx.data) = call.n_instances
        /\ \A k \in 1 .. call.n_instances - 1 :
               AtLeast(CandScore(outcome.value.query_idx.data[k] + 1),
                       CandScore(outcome.value.query_idx.data[k + 1] + 1))
        /\ \A k \in 1 .. call.n_instances, i \in 1 .. N :
               (\A l \in 1 .. call.n_instances : outcome.value.query_idx.data[l] # i - 1) =>
                   ~(AtLeast(CandScore(i), CandScore(outcome.value.query_idx.data[k] + 1))
                     /\ CandScore(i) # CandScore(outcome.value.query_idx.data[k] + 1))
        /\ (/\ call.op = "max_UCB" /\ call.param = 2 /\ call.n_instances = 1
            /\ optimizer.mean.data = <<0, 0>> /\ optimizer.std.data = <<1, 5>>) =>
               outcome.value.query_idx.data = <<1>>

\* C6: a failed prediction ends the call with the prediction's error; predict
\* was invoked once, the selector not at all, and nothing is returned.
C6_PredictFailurePropagates ==
    (Ended(Adapters \cup Strategies) /\ ~optimizer.fitted) =>
        /\ ~outcome.ok
        /\ outcome.error = "NotFittedError"
        /\ outcome.calls = <<"predict">>
        /\ outcome.value = NoArr

C6_Witness ==
    Ended({"max_EI"}) /\ ~optimizer.fitted /\ outcome.error = "NotFittedError"

\* C7: a call, returning or failing, leaves the surrogate (its y_max and the
\* mean and uncertainty arrays it predicts) and the candidate batch as they
\* were.
C7_CallerDataUnchanged ==
    [][(pc = "idle" /\ pc' = "done") => (optimizer' = optimizer /\ X' = X)]_vars

C7_Witness ==
    Ended({"optimizer_PI"}) /\ outcome.ok /\ N = MaxN /\ optimizer.std.shape = <<N>>

\* C8: UCB(mean, std, 0) = mean for every mean and std, zero and negative
\* std included.
C8_UCBZeroBetaIsMean ==
    (Ended({"UCB"}) /\ args.beta = 0) => outcome.value = args.mean

C8_Witness ==
    Ended({"UCB"}) /\ args.beta = 0 /\ args.std < 0 /\ args.mean # 0

\* C9: for std >= 0, UCB does not decrease when beta grows.
C9_UCBMonotoneInBeta ==
    (Ended({"UCB"}) /\ args.std >= 0) =>
        \A b \in FormulaBetas :
            /\ b >= args.beta => UCB(args.mean, args.std, b) >= outcome.value
            /\ b <= args.beta => UCB(args.mean, args.std, b) <= outcome.value

C9_Witness ==
    /\ Ended({"UCB"}) /\ args.std > 0 /\ args.beta = 1
    /\ UCB(args.mean, args.std, 2) > outcome.value

\* C10: a strategy returns the selector's index array as the selector gave
\* it, and with it one row per index: the row of X at that index.
C10_PassThrough ==
    (Ended(Strategies) /\ outcome.ok) =>
        /\ outcome.value.query_idx =
               multi_argmax(Utility.value, call.n_instances, call.nan_first).value
        /\ outcome.value.rows.shape = outcome.value.query_idx.shape
        /\ Len(outcome.value.rows.data) = Len(outcome.value.query_idx.data)
        /\ \A k \in 1 .. Len(outcome.value.query_idx.data) :
               outcome.value.rows.data[k] = X[outcome.value.query_idx.data[k] + 1]

C10_Witness ==
    /\ Ended({"max_EI"}) /\ outcome.ok /\ call.n_instances = 2
    /\ outcome.value.query_idx.data = <<1, 0>>
    /\ outcome.value.rows.data = <<X[2], X[1]>>

====
